---- MODULE Spec2Model ----
(***************************************************************************)
(* String analyzer API: the natural-language query parser, the filter      *)
(* validator and the filter views of analyzer/views.py, as state machines. *)
(* A query is a string; a character is a string of length 1.               *)
(***************************************************************************)
EXTENDS Integers, Sequences, FiniteSets, TLC

VARIABLES query, typed, pc, filters, error, validation_error, response, store,
          request, before, clock, handlers, input_text, analysis

vars == <<query, typed, pc, filters, error, validation_error, response, store,
          request, before, clock, handlers, input_text, analysis>>

(***************************************************************************)
(* Characters and the character classes of Python's re module, restricted  *)
(* to the ASCII characters the model's queries are written in.             *)
(***************************************************************************)
LowerLetters ==
    {"a", "b", "c", "d", "e", "f", "g", "h", "i", "j", "k", "l", "m",
     "n", "o", "p", "q", "r", "s", "t", "u", "v", "w", "x", "y", "z"}

UpperLetters ==
    {"A", "B", "C", "D", "E", "F", "G", "H", "I", "J", "K", "L", "M",
     "N", "O", "P", "Q", "R", "S", "T", "U", "V", "W", "X", "Y", "Z"}

DigitChars == {"0", "1", "2", "3", "4", "5", "6", "7", "8", "9"}

\* \s
SpaceChars == {" ", "\t"}

\* \w
WordChars == LowerLetters \cup UpperLetters \cup DigitChars \cup {"_"}

\* the character of s at index i (1-based)
CharAt(s, i) == SubSeq(s, i, i)

(***************************************************************************)
(* str.lower()                                                             *)
(***************************************************************************)
LowerTable ==
    [A |-> "a", B |-> "b", C |-> "c", D |-> "d", E |-> "e", F |-> "f",
     G |-> "g", H |-> "h", I |-> "i", J |-> "j", K |-> "k", L |-> "l",
     M |-> "m", N |-> "n", O |-> "o", P |-> "p", Q |-> "q", R |-> "r",
     S |-> "s", T |-> "t", U |-> "u", V |-> "v", W |-> "w", X |-> "x",
     Y |-> "y", Z |-> "z"]

LowerChar(c) == IF c \in DOMAIN LowerTable THEN LowerTable[c] ELSE c

RECURSIVE MapLower(_, _)
MapLower(s, i) ==
    IF i > Len(s) THEN "" ELSE LowerChar(CharAt(s, i)) \o MapLower(s, i + 1)

\* a variant of lower that leaves the text as it is
lower_identity(s) == s

lower(s) == MapLower(s, 1)

(***************************************************************************)
(* int() of a string of decimal digits                                     *)
(***************************************************************************)
DigitValue ==
    [c \in DigitChars |->
        CASE c = "0" -> 0 [] c = "1" -> 1 [] c = "2" -> 2 [] c = "3" -> 3
          [] c = "4" -> 4 [] c = "5" -> 5 [] c = "6" -> 6 [] c = "7" -> 7
          [] c = "8" -> 8 [] c = "9" -> 9]

RECURSIVE IntAcc(_, _, _)
IntAcc(s, i, acc) ==
    IF i > Len(s) THEN acc ELSE IntAcc(s, i + 1, acc * 10 + DigitValue[CharAt(s, i)])

int(s) == IntAcc(s, 1, 0)

(***************************************************************************)
(* Regular-expression matching.  A position is an index 1..Len(s)+1 in     *)
(* front of which the match has arrived; every piece of a pattern maps the *)
(* set of positions reached so far to the set of positions reached after   *)
(* it, so alternatives and backtracking are all followed.                  *)
(***************************************************************************)
\* \b at position i: exactly one of the characters around it is a \w
AtBoundary(s, i) ==
    (i > 1 /\ CharAt(s, i - 1) \in WordChars)
        # (i <= Len(s) /\ CharAt(s, i) \in WordChars)

\* \b
B(s, I) == {i \in I : AtBoundary(s, i)}

\* the literal text w
Lit(s, I, w) ==
    {i + Len(w) : i \in {k \in I : k + Len(w) - 1 <= Len(s)
                                    /\ SubSeq(s, k, k + Len(w) - 1) = w}}

\* one or more characters of the class C, from position i
RunFrom(s, i, C) ==
    {j \in (i + 1)..(Len(s) + 1) : \A k \in i..(j - 1) : CharAt(s, k) \in C}

\* C+
Plus(s, I, C) == UNION {RunFrom(s, i, C) : i \in I}

\* \s+
Sp(s, I) == Plus(s, I, SpaceChars)

\* X? where X leads from I to J
Opt(I, J) == I \cup J

\* one character of the class C
OneOf(s, I, C) == {i + 1 : i \in {k \in I : k <= Len(s) /\ CharAt(s, k) \in C}}

\* the positions at which a word starts.  Every pattern of the parser opens
\* with \b and a letter or a digit, so a match can start at these only.
Starts(s) ==
    {i \in 1..Len(s) : CharAt(s, i) \in WordChars /\ AtBoundary(s, i)}

\* the smallest element of a non-empty set of positions
MinOf(I) == CHOOSE i \in I : \A j \in I : i <= j

\* re.search(...) is not None, hits being the positions at which the
\* pattern matches
Found(hits) == hits # {}

\* re.search: the leftmost position at which a match starts, 0 when none does
Search(hits) == IF hits = {} THEN 0 ELSE MinOf(hits)

\* the largest element of a non-empty set of positions
MaxOf(I) == CHOOSE i \in I : \A j \in I : j <= i

(***************************************************************************)
(* The patterns of parse_natural_language_query.  XAt(s, i) says that the  *)
(* pattern X matches s starting at position i.                             *)
(***************************************************************************)
\* (e|ic|es)?\b, after the positions P
PalindromeSuffix(s, P) ==
    B(s, Opt(P, Lit(s, P, "e") \cup Lit(s, P, "ic") \cup Lit(s, P, "es")))

\* r'\bpalindrom(e|ic|es)?\b'
PalindromeAt(s, i) == PalindromeSuffix(s, Lit(s, B(s, {i}), "palindrom")) # {}

\* r'\bsingle\s+word\b'
SingleWordAt(s, i) ==
    B(s, Lit(s, Sp(s, Lit(s, B(s, {i}), "single")), "word")) # {}

\* s?\b, after the positions W
PluralTail(s, W) == B(s, Opt(W, Lit(s, W, "s")))

\* r'\s+words?\b' or r'\s+characters?\b', after a number
NounTail(s, I, noun) == PluralTail(s, Lit(s, Sp(s, I), noun))

\* (\d+) from position d, followed by the noun: the positions at which the
\* group can end
GroupEnds(s, d, noun) ==
    {e \in RunFrom(s, d, DigitChars) : NounTail(s, {e}, noun) # {}}

\* the group from position d, as the greedy \d+ chooses it
GroupFrom(s, d, noun) == <<d, MaxOf(GroupEnds(s, d, noun))>>

\* the group starting at one of the positions ok, none when ok is empty
GroupAmong(s, ok, noun) ==
    IF ok = {} THEN <<0, 0>> ELSE GroupFrom(s, MaxOf(ok), noun)

\* (\d+) followed by the noun, the group starting at one of the positions
\* D: <<start, end>> of the group as the greedy quantifiers choose it,
\* <<0, 0>> when there is no match
NumberGroup(s, D, noun) ==
    GroupAmong(s, {d \in D : GroupEnds(s, d, noun) # {}}, noun)

\* r'\b(\d+)\s+words?\b'
WordCountGroup(s, i) == NumberGroup(s, B(s, {i}), "word")

WordCountAt(s, i) == WordCountGroup(s, i) # <<0, 0>>

\* rf'\b{word_text}\s+words?\b'
TextWordsAt(s, i, word_text) ==
    NounTail(s, Lit(s, B(s, {i}), word_text), "word") # {}

\* r'\b<first>\s+<second>\s+(\d+)\s+characters?\b'
LengthGroup(s, i, first, second) ==
    NumberGroup(s, Sp(s, Lit(s, Sp(s, Lit(s, B(s, {i}), first)), second)),
                "character")

LengthAt(s, i, first, second) == LengthGroup(s, i, first, second) # <<0, 0>>

\* (?:ing|s)?\s+, after the positions c
ContainingVerb(s, c) == Sp(s, Opt(c, Lit(s, c, "ing") \cup Lit(s, c, "s")))

\* (?:the\s+)?, after the positions v
ContainingThe(s, v) == Opt(v, Sp(s, Lit(s, v, "the")))

\* (?:letter|character)\s+, after the positions t
ContainingNoun(s, t) == Sp(s, Lit(s, t, "letter") \cup Lit(s, t, "character"))

\* ([a-z])\b: the positions of g at which the group matches
ContainingLetter(s, g) == {d \in g : B(s, OneOf(s, {d}, LowerLetters)) # {}}

\* the last of the positions ok, 0 when there is none
LastOf(ok) == IF ok = {} THEN 0 ELSE MaxOf(ok)

\* r'\bcontain(?:ing|s)?\s+(?:the\s+)?(?:letter|character)\s+([a-z])\b':
\* the position of the group, 0 when there is no match
ContainingGroup(s, i) ==
    LastOf(ContainingLetter(s,
        ContainingNoun(s,
            ContainingThe(s, ContainingVerb(s, Lit(s, B(s, {i}), "contain"))))))

ContainingAt(s, i) == ContainingGroup(s, i) # 0

\* rf'\b{ordinal}\s+vowel\b'
VowelAt(s, i, ordinal) ==
    B(s, Lit(s, Sp(s, Lit(s, B(s, {i}), ordinal)), "vowel")) # {}

\* match.group(1) of the number patterns, as text
GroupText(s, g) == SubSeq(s, g[1], g[2] - 1)

(***************************************************************************)
(* parse_natural_language_query                                            *)
(***************************************************************************)
\* the dict of spelled-out numbers, in its insertion order
word_text_map_shifted ==
    << <<"one", 1>>, <<"two", 3>>, <<"three", 3>>, <<"four", 4>>,
       <<"five", 5>>, <<"six", 6>>, <<"seven", 7>>, <<"eight", 8>>,
       <<"nine", 9>>, <<"ten", 1>> >>

word_text_map ==
    << <<"one", 1>>, <<"two", 2>>, <<"three", 3>>, <<"four", 4>>,
       <<"five", 5>>, <<"six", 6>>, <<"seven", 7>>, <<"eight", 8>>,
       <<"nine", 9>>, <<"ten", 10>> >>

\* the first of the entries hits, 0 when there is none
FirstEntry(hits) == IF hits = {} THEN 0 ELSE MinOf(hits)

\* the entry of word_text_map at which the loop breaks, 0 when it runs out
TextWordsEntry(s, starts) ==
    FirstEntry({k \in 1..Len(word_text_map) :
                    \E i \in starts : TextWordsAt(s, i, word_text_map[k][1])})

\* {}
EmptyFilters == [k \in {} |-> 0]

\* filters = {k: v}
Put_replace(f, k, v) == k :> v

\* filters.setdefault(k, v)
Put_setdefault(f, k, v) == f @@ (k :> v)

\* filters[k] = v
Put(f, k, v) == (k :> v) @@ f

NoError == [type |-> "none", msg |-> ""]

InvalidMaxLengthError ==
    [type |-> "ValueError",
     msg |-> "Length constraints result in invalid max_length (< 0)"]

CouldNotParseError ==
    [type |-> "ValueError",
     msg |-> "Could not parse any recognizable patterns from the query. "
             \o "Supported patterns include: \"palindrome\", \"X words\", "
             \o "\"longer than X characters\", \"containing letter X\", \"first vowel\""]

\* int(longer_match.group(1)) + 1, taken as is
LongerMinLength_same(group) == int(group)

\* int(longer_match.group(1)) + 1
LongerMinLength(group) == int(group) + 1

\* int(shorter_match.group(1)) - 1
ShorterMaxLength(group) == int(group) - 1

\* the check never rejects
InvalidMaxLength_never(max_length) == FALSE

\* if max_length < 0: raise ValueError
InvalidMaxLength(max_length) == max_length < 0

\* if hit: filters[k] = v
PutIf(f, hit, k, v) == IF hit THEN Put(f, k, v) ELSE f

\* the keyword after a 'not' or a 'non' sets the filter to False
PalindromeRule_negatable(s, starts, f) ==
    PutIf(f, Found({i \in starts : PalindromeAt(s, i)}), "is_palindrome",
          ~Found({i \in starts : Lit(s, B(s, {i}), "no") # {}}))

\* Pattern 1: "palindrome" or "palindromic"
PalindromeRule(s, starts, f) ==
    PutIf(f, Found({i \in starts : PalindromeAt(s, i)}), "is_palindrome", TRUE)

\* Pattern 2: "single word"
SingleWordRule(s, starts, f) ==
    PutIf(f, Found({i \in starts : SingleWordAt(s, i)}), "word_count", 1)

\* if word_count_match: filters['word_count'] = int(word_count_match.group(1))
WordCountPut(s, word_count_match, f) ==
    PutIf(f, word_count_match # 0, "word_count",
          int(GroupText(s, WordCountGroup(s, word_count_match))))

\* Pattern 3: "X words" or "X word" (numeric)
WordCountRule(s, starts, f) ==
    WordCountPut(s, Search({i \in starts : WordCountAt(s, i)}), f)

\* filters['word_count'] = word_num; break
TextWordsPut(entry, f) ==
    PutIf(f, entry # 0, "word_count", word_text_map[entry][2])

\* Pattern 3b: "one word", "two words", etc. (text numbers)
TextWordsRule(s, starts, f) == TextWordsPut(TextWordsEntry(s, starts), f)

\* if longer_match: filters['min_length'] = int(longer_match.group(1)) + 1
LongerPut(s, longer_match, f) ==
    PutIf(f, longer_match # 0, "min_length",
          LongerMinLength(
              GroupText(s, LengthGroup(s, longer_match, "longer", "than"))))

\* Pattern 4: "longer than X characters"
LongerRule(s, starts, f) ==
    LongerPut(s, Search({i \in starts : LengthAt(s, i, "longer", "than")}), f)

\* the filters after the rules up to and including 'longer than'
FiltersThroughLonger(query_lower, starts) ==
    LongerRule(query_lower, starts,
        TextWordsRule(query_lower, starts,
            WordCountRule(query_lower, starts,
                SingleWordRule(query_lower, starts,
                    PalindromeRule(query_lower, starts, EmptyFilters)))))

\* if max_length < 0: raise ValueError(...); filters['max_length'] = max_length
ShorterPut(f, max_length) ==
    IF InvalidMaxLength(max_length)
    THEN [filters |-> EmptyFilters, error |-> InvalidMaxLengthError]
    ELSE [filters |-> Put(f, "max_length", max_length), error |-> NoError]

\* if shorter_match: max_length = int(shorter_match.group(1)) - 1 ...
ShorterStep(s, shorter_match, f) ==
    IF shorter_match = 0
    THEN [filters |-> f, error |-> NoError]
    ELSE ShorterPut(f,
             ShorterMaxLength(
                 GroupText(s, LengthGroup(s, shorter_match, "shorter", "than"))))

\* Additional: "shorter than X characters"; the dict after it, or the
\* exception it raised
ShorterRule(s, starts, f) ==
    ShorterStep(s, Search({i \in starts : LengthAt(s, i, "shorter", "than")}), f)

\* if at_least_match: filters['min_length'] = int(at_least_match.group(1))
AtLeastPut(s, at_least_match, f) ==
    PutIf(f, at_least_match # 0, "min_length",
          int(GroupText(s, LengthGroup(s, at_least_match, "at", "least"))))

\* Additional: "at least X characters"
AtLeastRule(s, starts, f) ==
    AtLeastPut(s, Search({i \in starts : LengthAt(s, i, "at", "least")}), f)

\* if at_most_match: filters['max_length'] = int(at_most_match.group(1))
AtMostPut(s, at_most_match, f) ==
    PutIf(f, at_most_match # 0, "max_length",
          int(GroupText(s, LengthGroup(s, at_most_match, "at", "most"))))

\* Additional: "at most X characters"
AtMostRule(s, starts, f) ==
    AtMostPut(s, Search({i \in starts : LengthAt(s, i, "at", "most")}), f)

\* if containing_match: filters['contains_character'] = containing_match.group(1)
ContainingPut(s, containing_match, f) ==
    PutIf(f, containing_match # 0, "contains_character",
          CharAt(s, ContainingGroup(s, containing_match)))

\* Pattern 5 & 7: "containing letter X" or "contains the letter X"
ContainingRule(s, starts, f) ==
    ContainingPut(s, Search({i \in starts : ContainingAt(s, i)}), f)

\* Pattern 6: "first vowel"
FirstVowelRule(s, starts, f) ==
    PutIf(f, Found({i \in starts : VowelAt(s, i, "first")}), "contains_character", "a")

\* Additional vowel patterns
SecondVowelRule(s, starts, f) ==
    PutIf(f, Found({i \in starts : VowelAt(s, i, "second")}), "contains_character", "e")

ThirdVowelRule(s, starts, f) ==
    PutIf(f, Found({i \in starts : VowelAt(s, i, "third")}), "contains_character", "i")

FourthVowelRule(s, starts, f) ==
    PutIf(f, Found({i \in starts : VowelAt(s, i, "fourth")}), "contains_character", "o")

FifthVowelRule(s, starts, f) ==
    PutIf(f, Found({i \in starts : VowelAt(s, i, "fifth")}), "contains_character", "u")

\* the filters after the rules that follow 'shorter than'
FiltersAfterShorter(query_lower, starts, f6) ==
    FifthVowelRule(query_lower, starts,
        FourthVowelRule(query_lower, starts,
            ThirdVowelRule(query_lower, starts,
                SecondVowelRule(query_lower, starts,
                    FirstVowelRule(query_lower, starts,
                        ContainingRule(query_lower, starts,
                            AtMostRule(query_lower, starts,
                                AtLeastRule(query_lower, starts, f6))))))))

\* if not filters: raise ValueError(...); return filters
ReturnOrRaise(f) ==
    IF f = EmptyFilters
    THEN [filters |-> EmptyFilters, error |-> CouldNotParseError]
    ELSE [filters |-> f, error |-> NoError]

\* the rules after 'shorter than' and the return, unless 'shorter than' raised
AfterShorter(query_lower, starts, shorter) ==
    IF shorter.error # NoError
    THEN shorter
    ELSE ReturnOrRaise(FiltersAfterShorter(query_lower, starts, shorter.filters))

\* the rules in their order, on the lowered query and its word starts
ParseLower(query_lower, starts) ==
    AfterShorter(query_lower, starts,
                 ShorterRule(query_lower, starts,
                             FiltersThroughLonger(query_lower, starts)))

\* the outcome of a call: the dict returned, or the exception raised
ParseFrom(query_lower) == ParseLower(query_lower, Starts(query_lower))

\* query_lower = query.lower()
parse_natural_language_query(q) == ParseFrom(lower(q))

(***************************************************************************)
(* NaturalLanguageFilterView._validate_filters: the message returned, as   *)
(* the sequence of its parts; None is the empty sequence.                  *)
(***************************************************************************)
None == <<>>

\* min_length >= max_length is taken for a conflict
LengthConflict_or_equal(f) == f["min_length"] >= f["max_length"]

\* filters['min_length'] > filters['max_length']
LengthConflict(f) == f["min_length"] > f["max_length"]

\* len() of a string
len(s) == Len(s)

_validate_filters(f) ==
    IF "min_length" \in DOMAIN f /\ "max_length" \in DOMAIN f /\ LengthConflict(f)
    THEN <<"Conflicting length constraints: min_length (", f["min_length"],
           ") cannot be greater than max_length (", f["max_length"], ")">>
    ELSE IF "word_count" \in DOMAIN f /\ f["word_count"] < 0
    THEN <<"Invalid word_count: ", f["word_count"], " (must be non-negative)">>
    ELSE IF "min_length" \in DOMAIN f /\ f["min_length"] < 0
    THEN <<"Invalid min_length: ", f["min_length"], " (must be non-negative)">>
    ELSE IF "max_length" \in DOMAIN f /\ f["max_length"] < 0
    THEN <<"Invalid max_length: ", f["max_length"], " (must be non-negative)">>
    ELSE IF "contains_character" \in DOMAIN f /\ len(f["contains_character"]) # 1
    THEN <<"Invalid contains_character: must be a single character">>
    ELSE None

(***************************************************************************)
(* The analysis functions of analyzer/utils.py.                            *)
(***************************************************************************)
\* hashlib.sha256(text.encode('utf-8')).hexdigest(), for the texts the
\* model's requests carry and the texts the serializer makes of them
Sha256Hex ==
    ("" :> "e3b0c44298fc1c149afbf4c8996fb92427ae41e4649b934ca495991b7852b855")
    @@ ("aA" :> "af1c08098cf119bb4981729721714a4b9948dbcb6b5fff21cb0f45f06ad1f7ea")
    @@ (" aA" :> "a22e36bacef502124bca2e20150bfe960f3602d336ba0722da60922733a7fbb3")
    @@ ("ab" :> "fb8e20fc2e4c3f248c60c39bd652f3c1347298bb977b8b4d5903b85055620603")
    @@ ("a b" :> "c8687a08aa5d6ed2044328fa6a697ab8e96dc34291e8c2034ae8c38e6fcc6d65")

calculate_sha256(text) == Sha256Hex[text]

Alphanumeric_keeping_all(text) == text

\* re.sub(r'[^a-zA-Z0-9]', '', text)
RECURSIVE Alphanumeric(_)
Alphanumeric(text) ==
    IF text = "" THEN ""
    ELSE IF CharAt(text, 1) \in LowerLetters \cup UpperLetters \cup DigitChars
    THEN CharAt(text, 1) \o Alphanumeric(SubSeq(text, 2, Len(text)))
    ELSE Alphanumeric(SubSeq(text, 2, Len(text)))

\* cleaned[::-1]
RECURSIVE Reversed(_)
Reversed(cleaned) ==
    IF cleaned = "" THEN ""
    ELSE Reversed(SubSeq(cleaned, 2, Len(cleaned))) \o CharAt(cleaned, 1)

is_palindrome(text) ==
    lower(Alphanumeric(text)) = Reversed(lower(Alphanumeric(text)))

\* set(text)
CharactersOf(text) == { CharAt(text, i) : i \in 1..Len(text) }

count_unique_characters(text) == Cardinality(CharactersOf(text))

\* len(text.split()): the words are the runs of characters that are not
\* whitespace
get_word_count(text) ==
    Cardinality({ i \in 1..Len(text) :
                    /\ CharAt(text, i) \notin SpaceChars
                    /\ i = 1 \/ CharAt(text, i - 1) \in SpaceChars })

get_character_frequency(text) ==
    [ char \in CharactersOf(text) |->
          Cardinality({ i \in 1..Len(text) : CharAt(text, i) = char }) ]

(***************************************************************************)
(* The table of StringAnalysis rows (analyzer/models.py), in the order of  *)
(* their insertion, and the queries the views make on it.                  *)
(***************************************************************************)
StringAnalysis_letters_counted(value, now) ==
    [sha256_hash |-> calculate_sha256(value),
     value |-> value,
     length |-> Len(Alphanumeric(value)),
     is_palindrome |-> is_palindrome(value),
     unique_characters |-> count_unique_characters(value),
     word_count |-> get_word_count(value),
     character_frequency_map |-> get_character_frequency(value),
     created_at |-> now]

StringAnalysis_keyed_by_time(value, now) ==
    [sha256_hash |-> calculate_sha256(IF now = 0 THEN "ab"
                                      ELSE IF now = 1 THEN "a b" ELSE ""),
     value |-> value,
     length |-> Len(value),
     is_palindrome |-> is_palindrome(value),
     unique_characters |-> count_unique_characters(value),
     word_count |-> get_word_count(value),
     character_frequency_map |-> get_character_frequency(value),
     created_at |-> now]

\* StringAnalysisSerializer.create: the row of a validated value, created
\* at time now
StringAnalysis(value, now) ==
    [sha256_hash |-> calculate_sha256(value),
     value |-> value,
     length |-> Len(value),
     is_palindrome |-> is_palindrome(value),
     unique_characters |-> count_unique_characters(value),
     word_count |-> get_word_count(value),
     character_frequency_map |-> get_character_frequency(value),
     created_at |-> now]

\* objects.filter(sha256_hash=sha256_hash).exists()
exists(table, sha256_hash) ==
    \E i \in 1..Len(table) : table[i].sha256_hash = sha256_hash

\* the primary key of an INSERT is taken: IntegrityError
PrimaryKeyTaken_never(table, row) == FALSE

PrimaryKeyTaken(table, row) == exists(table, row.sha256_hash)

\* the rows with a value, and objects.get(value=value) when there is one
RowsWithValue(table, value) == { i \in 1..Len(table) : table[i].value = value }

objects_get(table, value) == table[CHOOSE i \in RowsWithValue(table, value) : TRUE]

DeleteRow_all(table, sha256_hash) == <<>>

\* DELETE of the row with a primary key, which may be there no longer
DeleteRow(table, sha256_hash) ==
    SelectSeq(table, LAMBDA row : row.sha256_hash # sha256_hash)

objects_all_in_insertion_order(table) == table

\* StringAnalysis.objects.all() with Meta.ordering = ['-created_at']: the
\* row at place k is the one that k - 1 rows are newer than
objects_all(table) ==
    [ k \in 1..Len(table) |->
          table[CHOOSE i \in 1..Len(table) :
                    Cardinality({ j \in 1..Len(table) :
                                    table[j].created_at > table[i].created_at }) = k - 1] ]

\* StringAnalysisSerializer(row).data
to_representation(row) ==
    [id |-> row.sha256_hash,
     value |-> row.value,
     properties |->
         [length |-> row.length,
          is_palindrome |-> row.is_palindrome,
          unique_characters |-> row.unique_characters,
          word_count |-> row.word_count,
          sha256_hash |-> row.sha256_hash,
          character_frequency_map |-> row.character_frequency_map],
     created_at |-> row.created_at]

\* StringAnalysisSerializer(results, many=True).data
SerializedMany(results) == [ i \in 1..Len(results) |-> to_representation(results[i]) ]

(***************************************************************************)
(* NaturalLanguageFilterView._apply_filters on the records of a queryset,  *)
(* kept in the queryset's order.                                           *)
(***************************************************************************)
IContains_case_sensitive(value, c) ==
    \E i \in 1..Len(value) : CharAt(value, i) = c

\* value__icontains
IContains(value, c) ==
    \E i \in 1..Len(value) : lower(CharAt(value, i)) = lower(c)

_apply_filters(queryset, f) ==
    LET keep(r) ==
            /\ "is_palindrome" \in DOMAIN f => r.is_palindrome = f["is_palindrome"]
            /\ "min_length" \in DOMAIN f => r.length >= f["min_length"]
            /\ "max_length" \in DOMAIN f => r.length <= f["max_length"]
            /\ "word_count" \in DOMAIN f => r.word_count = f["word_count"]
            /\ "contains_character" \in DOMAIN f
                   => IContains(r.value, f["contains_character"])
    IN  SelectSeq(queryset, keep)

(***************************************************************************)
(* str.strip()                                                             *)
(***************************************************************************)
RECURSIVE lstrip(_)
lstrip(s) ==
    IF s # "" /\ CharAt(s, 1) \in SpaceChars
    THEN lstrip(SubSeq(s, 2, Len(s))) ELSE s

RECURSIVE rstrip(_)
rstrip(s) ==
    IF s # "" /\ CharAt(s, Len(s)) \in SpaceChars
    THEN rstrip(SubSeq(s, 1, Len(s) - 1)) ELSE s

strip(s) == rstrip(lstrip(s))

(***************************************************************************)
(* The responses of NaturalLanguageFilterView.get                          *)
(***************************************************************************)
HTTP_200_OK == 200

HTTP_400_BAD_REQUEST == 400

HTTP_422_UNPROCESSABLE_ENTITY == 422

NoResponse ==
    [status |-> 0, error |-> "", details |-> None, data |-> <<>>, count |-> 0,
     original |-> "", parsed_filters |-> EmptyFilters]

ErrorResponse(status, message, details) ==
    [NoResponse EXCEPT !.status = status, !.error = message, !.details = details]

\* the locals filters and validation_error of the handler and the exception
\* it caught, with the response it returns
Outcome(f, e, problem, resp) ==
    [filters |-> f, error |-> e, validation_error |-> problem, response |-> resp]

\* Step 5 and 6: apply the filters and return the records
Respond(q, f, results) ==
    Outcome(f, NoError, None,
            [status |-> HTTP_200_OK, error |-> "", details |-> None,
             data |-> SerializedMany(results), count |-> Len(results),
             original |-> q, parsed_filters |-> f])

AfterValidate_unchecked(q, f, problem, objects) ==
    Respond(q, f, _apply_filters(objects, f))

\* Step 4: check for conflicting filters
AfterValidate(q, f, problem, objects) ==
    IF problem # None
    THEN Outcome(f, NoError, problem,
                 ErrorResponse(HTTP_422_UNPROCESSABLE_ENTITY,
                               "Conflicting filters detected", problem))
    ELSE Respond(q, f, _apply_filters(objects, f))

\* Step 2 and 3: except ValueError
AfterParse(q, parsed, objects) ==
    IF parsed.error # NoError
    THEN Outcome(EmptyFilters, parsed.error, None,
                 ErrorResponse(HTTP_400_BAD_REQUEST,
                               "Unable to parse natural language query", None))
    ELSE AfterValidate(q, parsed.filters, _validate_filters(parsed.filters), objects)

\* Step 1: the 'query' parameter, stripped
AfterStrip(q, objects) ==
    IF q = ""
    THEN Outcome(EmptyFilters, NoError, None,
                 ErrorResponse(HTTP_400_BAD_REQUEST, "Query parameter is required", None))
    ELSE AfterParse(q, parse_natural_language_query(q), objects)

\* the handler, from the request's 'query' parameter and the stored records
NaturalLanguageFilterView_get(raw, objects) == AfterStrip(strip(raw), objects)

(***************************************************************************)
(* StringListCreateView and StringRetrieveDeleteView.  A handler is given  *)
(* the table and the time and returns its response with the table and the  *)
(* time it leaves.                                                         *)
(***************************************************************************)
HTTP_201_CREATED == 201

HTTP_204_NO_CONTENT == 204

HTTP_404_NOT_FOUND == 404

HTTP_409_CONFLICT == 409

\* the values of a JSON body: a value and its Python type
JsonString(s) == [type |-> "str", str |-> s]

\* None and 7
NotStrings == {[type |-> "NoneType", str |-> ""], [type |-> "int", str |-> "7"]}

\* request.data without a field, and with the field 'value'
NoData == [k \in {} |-> ""]

ValueData(value) == [k \in {"value"} |-> value]

StoreOutcome(resp, table, now) == [response |-> resp, store |-> table, clock |-> now]

\* STEP 1, 2 and 4 of post: the response that rejects the request, or
\* NoResponse when the request passes the three checks
PostRejection(data, table) ==
    IF "value" \notin DOMAIN data
    THEN ErrorResponse(HTTP_400_BAD_REQUEST, "Doesn't Exist", None)
    ELSE IF data["value"].type # "str"
    THEN ErrorResponse(HTTP_422_UNPROCESSABLE_ENTITY, "Not A String", None)
    ELSE IF exists(table, calculate_sha256(data["value"].str))
    THEN ErrorResponse(HTTP_409_CONFLICT, "Already Exists", None)
    ELSE NoResponse

\* a field that would keep the value as it was sent
to_internal_value_verbatim(value) == value

\* the serializer's field 'value', a CharField that trims whitespace and
\* allows no blank
to_internal_value(value) == strip(value)

\* serializer.save(): objects.create(...) inserts the row, and raises
\* IntegrityError when its primary key is taken; the exception leaves the
\* handler, which returns no response
PostCreate(row, table, now) ==
    IF PrimaryKeyTaken(table, row)
    THEN StoreOutcome([NoResponse EXCEPT !.error = "IntegrityError"], table, now)
    ELSE StoreOutcome([NoResponse EXCEPT !.status = HTTP_201_CREATED,
                                         !.data = to_representation(row)],
                      Append(table, row), now + 1)

\* STEP 5 of post: serializer.is_valid(), then save() or serializer.errors
PostSave(value, table, now) ==
    IF to_internal_value(value) = ""
    THEN StoreOutcome(ErrorResponse(HTTP_400_BAD_REQUEST, "",
                                    <<"value", "This field may not be blank.">>),
                      table, now)
    ELSE PostCreate(StringAnalysis(to_internal_value(value), now), table, now)

\* POST /strings with request.data = data
StringListCreateView_post(data, table, now) ==
    IF PostRejection(data, table) # NoResponse
    THEN StoreOutcome(PostRejection(data, table), table, now)
    ELSE PostSave(data["value"].str, table, now)

\* urllib.parse.unquote, for the escapes the model's paths are written with
PercentEscapes == ("%20" :> " ") @@ ("%41" :> "A")

RECURSIVE unquote(_)
unquote(s) ==
    IF s = "" THEN ""
    ELSE IF Len(s) >= 3 /\ SubSeq(s, 1, 3) \in DOMAIN PercentEscapes
    THEN PercentEscapes[SubSeq(s, 1, 3)] \o unquote(SubSeq(s, 4, Len(s)))
    ELSE CharAt(s, 1) \o unquote(SubSeq(s, 2, Len(s)))

StringRetrieveDeleteView_get_removing(string_value, table, now) ==
    IF RowsWithValue(table, unquote(string_value)) = {}
    THEN StoreOutcome(ErrorResponse(HTTP_404_NOT_FOUND, "Doesn't Exist", None),
                      table, now)
    ELSE StoreOutcome([NoResponse EXCEPT
                           !.status = HTTP_200_OK,
                           !.data = to_representation(
                                        objects_get(table, unquote(string_value)))],
                      DeleteRow(table,
                                objects_get(table, unquote(string_value)).sha256_hash),
                      now)

\* GET /strings/<string_value>
StringRetrieveDeleteView_get(string_value, table, now) ==
    IF RowsWithValue(table, unquote(string_value)) = {}
    THEN StoreOutcome(ErrorResponse(HTTP_404_NOT_FOUND, "Doesn't Exist", None),
                      table, now)
    ELSE StoreOutcome([NoResponse EXCEPT
                           !.status = HTTP_200_OK,
                           !.data = to_representation(
                                        objects_get(table, unquote(string_value)))],
                      table, now)

\* the record is marked and stays in the table
StringRetrieveDeleteView_delete_keeping(string_value, table, now) ==
    IF RowsWithValue(table, unquote(string_value)) = {}
    THEN StoreOutcome(ErrorResponse(HTTP_404_NOT_FOUND,
                                    "String does not exist in the system", None),
                      table, now)
    ELSE StoreOutcome([NoResponse EXCEPT !.status = HTTP_204_NO_CONTENT],
                      table, now)

\* DELETE /strings/<string_value>
StringRetrieveDeleteView_delete(string_value, table, now) ==
    IF RowsWithValue(table, unquote(string_value)) = {}
    THEN StoreOutcome(ErrorResponse(HTTP_404_NOT_FOUND,
                                    "String does not exist in the system", None),
                      table, now)
    ELSE StoreOutcome([NoResponse EXCEPT !.status = HTTP_204_NO_CONTENT],
                      DeleteRow(table,
                                objects_get(table, unquote(string_value)).sha256_hash),
                      now)

(***************************************************************************)
(* StringListCreateView.get: the query parameters are strings; those that  *)
(* are given are validated one by one into filters_applied and errors.     *)
(***************************************************************************)
\* int(s) returns for a string of digits with an optional sign, and raises
\* ValueError for the other strings the model's requests carry
IsInteger(s) ==
    /\ s # ""
    /\ s # "-"
    /\ \A i \in 1..Len(s) : CharAt(s, i) \in DigitChars \/ (i = 1 /\ CharAt(s, i) = "-")

IntegerOf(s) == IF CharAt(s, 1) = "-" THEN 0 - int(SubSeq(s, 2, Len(s))) ELSE int(s)

Validation(filters_applied, errors) == [filters_applied |-> filters_applied, errors |-> errors]

IsPalindromeParam(params, v) ==
    IF "is_palindrome" \notin DOMAIN params THEN v
    ELSE IF lower(params["is_palindrome"]) \in {"true", "1", "yes"}
    THEN Validation(Put(v.filters_applied, "is_palindrome", TRUE), v.errors)
    ELSE IF lower(params["is_palindrome"]) \in {"false", "0", "no"}
    THEN Validation(Put(v.filters_applied, "is_palindrome", FALSE), v.errors)
    ELSE Validation(v.filters_applied,
                    Put(v.errors, "is_palindrome", "Must be a boolean value (true/false)."))

\* min_length, max_length and word_count
IntegerParam(params, name, v) ==
    IF name \notin DOMAIN params THEN v
    ELSE IF ~IsInteger(params[name])
    THEN Validation(v.filters_applied, Put(v.errors, name, "Must be a valid integer."))
    ELSE IF IntegerOf(params[name]) < 0
    THEN Validation(v.filters_applied, Put(v.errors, name, "Must be a non-negative integer."))
    ELSE Validation(Put(v.filters_applied, name, IntegerOf(params[name])), v.errors)

LengthRange_unchecked(params, v) == v

LengthRange(params, v) ==
    IF /\ "min_length" \in DOMAIN params
       /\ "max_length" \in DOMAIN params
       /\ "min_length" \notin DOMAIN v.errors
       /\ "max_length" \notin DOMAIN v.errors
       /\ v.filters_applied["min_length"] > v.filters_applied["max_length"]
    THEN Validation(v.filters_applied,
                    Put(v.errors, "length_range",
                        "min_length cannot be greater than max_length."))
    ELSE v

ContainsCharacterParam(params, v) ==
    IF "contains_character" \notin DOMAIN params THEN v
    ELSE IF len(params["contains_character"]) # 1
    THEN Validation(v.filters_applied,
                    Put(v.errors, "contains_character", "Must be a single character."))
    ELSE Validation(Put(v.filters_applied, "contains_character",
                        params["contains_character"]), v.errors)

ValidatedParams(params) ==
    ContainsCharacterParam(params,
      IntegerParam(params, "word_count",
        LengthRange(params,
          IntegerParam(params, "max_length",
            IntegerParam(params, "min_length",
              IsPalindromeParam(params, Validation(EmptyFilters, EmptyFilters)))))))

ListResponse(v, results) ==
    IF v.errors # EmptyFilters
    THEN ErrorResponse(HTTP_400_BAD_REQUEST, "Invalid query parameters", v.errors)
    ELSE [NoResponse EXCEPT !.status = HTTP_200_OK,
                            !.data = SerializedMany(results),
                            !.count = Len(results),
                            !.parsed_filters = v.filters_applied]

\* GET /strings with request.query_params = params; the response's field
\* parsed_filters holds filters_applied
StringListCreateView_get(params, table, now) ==
    StoreOutcome(ListResponse(ValidatedParams(params),
                              _apply_filters(objects_all(table),
                                             ValidatedParams(params).filters_applied)),
                 table, now)

(***************************************************************************)
(* The queries.  A query is typed phrase by phrase, the phrases separated  *)
(* by one space; typed records, for each phrase, the rules of the parser   *)
(* it is written to trigger (with the number n or the letter ch the rule   *)
(* reads from it), so that the parser's result can be compared with what   *)
(* was typed.                                                              *)
(***************************************************************************)
MaxPhrases == 2

MaxNumberPhrases == 1

Phrase(text, rules, n, ch) == [text |-> text, rules |-> rules, n |-> n, ch |-> ch]

Vocabulary ==
    { Phrase("palindrome", {"palindrome"}, 0, ""),
      Phrase("palindromic strings with 2 words", {"palindrome", "numeral_words"}, 2, ""),
      Phrase("PALINDROMES", {"palindrome"}, 0, ""),
      Phrase("palindrom", {"palindrome"}, 0, ""),
      Phrase("nonpalindromic palindromed", {}, 0, ""),
      Phrase("not a palindrome", {"palindrome"}, 0, ""),
      Phrase("non-palindromic", {"palindrome"}, 0, ""),
      Phrase("single word", {"single_word"}, 1, ""),
      Phrase("3 Words", {"numeral_words"}, 3, ""),
      Phrase("two words", {"text_words"}, 2, ""),
      Phrase("Ten word", {"text_words"}, 10, ""),
      Phrase("longer than 10 characters", {"longer"}, 10, ""),
      Phrase("at least 5 characters", {"at_least"}, 5, ""),
      Phrase("shorter than 0 characters", {"shorter"}, 0, ""),
      Phrase("shorter than 8 characters", {"shorter"}, 8, ""),
      Phrase("at most 5 characters", {"at_most"}, 5, ""),
      Phrase("containing letter a", {"containing"}, 0, "a"),
      Phrase("Contains The Character Z", {"containing"}, 0, "z"),
      Phrase("containing letter ab", {}, 0, ""),
      Phrase("first vowel", {"first_vowel"}, 0, "a"),
      Phrase("second vowel", {"second_vowel"}, 0, "e"),
      Phrase("third vowel", {"third_vowel"}, 0, "i"),
      Phrase("fourth vowel", {"fourth_vowel"}, 0, "o"),
      Phrase("fifth vowel", {"fifth_vowel"}, 0, "u"),
      Phrase("xyz abc def", {}, 0, ""),
      Phrase("\t", {}, 0, "") }

\* numerals as they are written, with the numbers they stand for
Numerals ==
    { <<"0", 0>>, <<"1", 1>>, <<"2", 2>>, <<"3", 3>>, <<"4", 4>>, <<"5", 5>>,
      <<"6", 6>>, <<"7", 7>>, <<"8", 8>>, <<"9", 9>>, <<"10", 10>>,
      <<"12", 12>>, <<"007", 7>> }

\* the numerals written into the length phrases
LengthNumerals == { <<"0", 0>>, <<"1", 1>>, <<"2", 2>>, <<"10", 10>>, <<"007", 7>> }

\* the spelled-out numbers of the parser's grammar
Spelled ==
    { <<"one", 1>>, <<"two", 2>>, <<"three", 3>>, <<"four", 4>>, <<"five", 5>>,
      <<"six", 6>>, <<"seven", 7>>, <<"eight", 8>>, <<"nine", 9>>, <<"ten", 10>> }

NumberVocabulary ==
    {Phrase(x[1] \o " " \o w, {"numeral_words"}, x[2], "") :
        x \in Numerals, w \in {"word", "words"}}
    \cup {Phrase(x[1] \o " " \o w, {"text_words"}, x[2], "") :
        x \in Spelled, w \in {"word", "words"}}
    \cup {Phrase("longer than " \o x[1] \o " " \o w, {"longer"}, x[2], "") :
        x \in LengthNumerals, w \in {"character", "characters"}}
    \cup {Phrase("shorter than " \o x[1] \o " " \o w, {"shorter"}, x[2], "") :
        x \in LengthNumerals, w \in {"character", "characters"}}
    \cup {Phrase("at least " \o x[1] \o " " \o w, {"at_least"}, x[2], "") :
        x \in LengthNumerals, w \in {"character", "characters"}}
    \cup {Phrase("at most " \o x[1] \o " " \o w, {"at_most"}, x[2], "") :
        x \in LengthNumerals, w \in {"character", "characters"}}

(***************************************************************************)
(* The state machine                                                       *)
(***************************************************************************)
Init ==
    /\ query = ""
    /\ typed = <<>>
    /\ pc = "input"
    /\ filters = EmptyFilters
    /\ error = NoError
    /\ validation_error = None
    /\ response = NoResponse
    /\ store = <<>>
    /\ request = [op |-> "none", input |-> <<>>]
    /\ before = <<>>
    /\ clock = 0
    /\ handlers = <<>>
    /\ input_text = ""
    /\ analysis = None

\* the caller writes one more phrase of the query
TypePhrase(p, limit) ==
    /\ pc = "input"
    /\ Len(typed) < limit
    /\ query' = IF typed = <<>> THEN p.text ELSE query \o " " \o p.text
    /\ typed' = Append(typed, p)
    /\ UNCHANGED <<pc, filters, error, validation_error, response, store,
                 request, before, clock, handlers, input_text, analysis>>

\* the caller holds the outcome of the parser
Parse(out) ==
    /\ filters' = out.filters
    /\ error' = out.error

\* the handler's locals and its response are those of the outcome
Handle(out) ==
    /\ filters' = out.filters
    /\ error' = out.error
    /\ validation_error' = out.validation_error
    /\ response' = out.response

\* a call of parse_natural_language_query(query)
CallParse ==
    /\ pc = "input"
    /\ Parse(parse_natural_language_query(query))
    /\ pc' = "parsed"
    /\ UNCHANGED <<query, typed, validation_error, response, store,
                 request, before, clock, handlers, input_text, analysis>>

\* GET /strings/filter-by-natural-language?query=<query>
NLFilterGet ==
    /\ pc = "input"
    /\ Handle(NaturalLanguageFilterView_get(query, objects_all(store)))
    /\ pc' = "responded"
    /\ UNCHANGED <<query, typed, store,
                 request, before, clock, handlers, input_text, analysis>>

Next ==
    \/ \E p \in Vocabulary : TypePhrase(p, MaxPhrases)
    \/ CallParse
    \/ NLFilterGet

Spec == Init /\ [][Next]_vars

\* queries of numerals and spelled-out numbers
NextNumbers ==
    \/ \E p \in NumberVocabulary : TypePhrase(p, MaxNumberPhrases)
    \/ CallParse

SpecNumbers == Init /\ [][NextNumbers]_vars

(***************************************************************************)
(* _validate_filters on filter sets of any content, as the direct path and *)
(* the parser may hand them over.                                          *)
(***************************************************************************)
MaxFilterValue == 2

MaxNegative == 1

FieldNames ==
    {"is_palindrome", "min_length", "max_length", "word_count", "contains_character"}

FilterNumbers == (0 - MaxNegative)..MaxFilterValue

FilterCharacters == {"", "a", "ab"}

FilterSets ==
    { [k \in D |->
          CASE k = "is_palindrome" -> b
            [] k = "min_length" -> mn
            [] k = "max_length" -> mx
            [] k = "word_count" -> wc
            [] k = "contains_character" -> cc] :
        D \in SUBSET FieldNames, b \in BOOLEAN, mn \in FilterNumbers,
        mx \in FilterNumbers, wc \in FilterNumbers, cc \in FilterCharacters }

InitValidate ==
    /\ query = ""
    /\ typed = <<>>
    /\ pc = "input"
    /\ filters \in FilterSets
    /\ error = NoError
    /\ validation_error = None
    /\ response = NoResponse
    /\ store = <<>>
    /\ request = [op |-> "none", input |-> <<>>]
    /\ before = <<>>
    /\ clock = 0
    /\ handlers = <<>>
    /\ input_text = ""
    /\ analysis = None

\* a call of _validate_filters(filters)
CallValidate ==
    /\ pc = "input"
    /\ validation_error' = _validate_filters(filters)
    /\ pc' = "validated"
    /\ UNCHANGED <<query, typed, filters, error, response, store,
                 request, before, clock, handlers, input_text, analysis>>

SpecValidate == InitValidate /\ [][CallValidate]_vars

(***************************************************************************)
(* The views on one table, one request after the other: each request is    *)
(* handled whole before the next one.  request is the request handled last *)
(* and before the table it found.                                          *)
(***************************************************************************)
MaxCreates == 3

PostData ==
    {NoData} \cup { ValueData(value) : value \in NotStrings }
             \cup { ValueData(JsonString(s)) : s \in {"", "aA", " aA", "ab", "a b"} }

Paths == {"aA", " aA", "ab", "a%20b"}

\* request.query_params
NoParams == [k \in {} |-> ""]

ListParams ==
    {NoParams,
     ("is_palindrome" :> "TRUE"), ("is_palindrome" :> "no"),
     ("is_palindrome" :> "maybe"),
     ("min_length" :> "3"), ("min_length" :> "-1"),
     ("max_length" :> "2"), ("max_length" :> "x"),
     ("min_length" :> "3") @@ ("max_length" :> "2"),
     ("min_length" :> "2") @@ ("max_length" :> "2"),
     ("word_count" :> "2"),
     ("contains_character" :> "A"), ("contains_character" :> "ab"),
     ("is_palindrome" :> "yes") @@ ("min_length" :> "2"),
     ("contains_character" :> "b") @@ ("word_count" :> "1")}

NLQueries ==
    {"", " \t", "palindromic strings", "strings longer than 1 characters",
     "strings containing the letter A", "single word strings",
     "longer than 2 characters and shorter than 2 characters", "everything"}

\* the handler's response, and the table and the time it leaves
Reply(out) ==
    /\ response' = out.response
    /\ store' = out.store
    /\ clock' = out.clock

\* the request is taken while no query is being parsed
Serve(op, input) ==
    /\ pc = "input"
    /\ request' = [op |-> op, input |-> input]
    /\ before' = store
    /\ UNCHANGED <<typed, pc, handlers, input_text, analysis>>

Post(data) ==
    /\ clock < MaxCreates
    /\ Serve("post", data)
    /\ Reply(StringListCreateView_post(data, store, clock))
    /\ UNCHANGED <<query, filters, error, validation_error>>

Retrieve(string_value) ==
    /\ Serve("get", string_value)
    /\ Reply(StringRetrieveDeleteView_get(string_value, store, clock))
    /\ UNCHANGED <<query, filters, error, validation_error>>

Delete(string_value) ==
    /\ Serve("delete", string_value)
    /\ Reply(StringRetrieveDeleteView_delete(string_value, store, clock))
    /\ UNCHANGED <<query, filters, error, validation_error>>

List(params) ==
    /\ Serve("list", params)
    /\ Reply(StringListCreateView_get(params, store, clock))
    /\ UNCHANGED <<query, filters, error, validation_error>>

NLFilter(q) ==
    /\ Serve("filter", q)
    /\ query' = q
    /\ Handle(NaturalLanguageFilterView_get(q, objects_all(store)))
    /\ UNCHANGED <<store, clock>>

NextStore ==
    \/ \E data \in PostData : Post(data)
    \/ \E string_value \in Paths : Retrieve(string_value)
    \/ \E string_value \in Paths : Delete(string_value)
    \/ \E params \in ListParams : List(params)
    \/ \E q \in NLQueries : NLFilter(q)

SpecStore == Init /\ [][NextStore]_vars

(***************************************************************************)
(* The create and delete views on one table, by requests that run at the   *)
(* same time.  A handler's queries on the table are its steps: post looks  *)
(* the hash up and later inserts the row, delete looks the row up and      *)
(* later deletes it, and the steps of other handlers come in between.      *)
(* handlers holds, for each request that has arrived, its handler's place  *)
(* pc, the row it found and its response.                                  *)
(***************************************************************************)
MaxClients == 3

ConcurrentValues == {"aA", "ab"}

At(c, op, place) ==
    /\ c \in 1..Len(handlers)
    /\ handlers[c].op = op
    /\ handlers[c].pc = place
    /\ UNCHANGED <<query, typed, pc, filters, error, validation_error, response,
                   request, before, input_text, analysis>>

\* a request arrives
Arrive(op, input) ==
    /\ Len(handlers) < MaxClients
    /\ handlers' = Append(handlers, [op |-> op, input |-> input, pc |-> "started",
                                     found |-> <<>>, response |-> NoResponse])
    /\ UNCHANGED <<query, typed, pc, filters, error, validation_error, response,
                   store, request, before, clock, input_text, analysis>>

\* the handler returns or raises
Finish(c, out) ==
    /\ handlers' = [handlers EXCEPT ![c].pc = "done", ![c].response = out.response]
    /\ store' = out.store
    /\ clock' = out.clock

\* post, STEP 1 to 4
PostCheck(c) ==
    /\ At(c, "post", "started")
    /\ handlers' =
           [handlers EXCEPT
               ![c].response = PostRejection(handlers[c].input, store),
               ![c].pc = IF PostRejection(handlers[c].input, store) = NoResponse
                         THEN "checked" ELSE "done"]
    /\ UNCHANGED <<store, clock>>

\* post, STEP 5
PostInsert(c) ==
    /\ At(c, "post", "checked")
    /\ Finish(c, PostSave(handlers[c].input["value"].str, store, clock))

\* delete: objects.get(value=decoded_value)
DeleteFind(c) ==
    /\ At(c, "delete", "started")
    /\ IF RowsWithValue(store, unquote(handlers[c].input)) = {}
       THEN Finish(c, StringRetrieveDeleteView_delete(handlers[c].input, store, clock))
       ELSE /\ handlers' =
                  [handlers EXCEPT
                      ![c].pc = "found",
                      ![c].found = objects_get(store, unquote(handlers[c].input))]
            /\ UNCHANGED <<store, clock>>

\* delete: string_analysis.delete()
DeleteFound(c) ==
    /\ At(c, "delete", "found")
    /\ Finish(c, StoreOutcome([NoResponse EXCEPT !.status = HTTP_204_NO_CONTENT],
                              DeleteRow(store, handlers[c].found.sha256_hash), clock))

NextConcurrent ==
    \/ \E s \in ConcurrentValues \cup {" aA"} :
           Arrive("post", ValueData(JsonString(s)))
    \/ \E s \in ConcurrentValues : Arrive("delete", s)
    \/ \E c \in 1..MaxClients : PostCheck(c)
    \/ \E c \in 1..MaxClients : PostInsert(c)
    \/ \E c \in 1..MaxClients : DeleteFind(c)
    \/ \E c \in 1..MaxClients : DeleteFound(c)

SpecConcurrent == Init /\ [][NextConcurrent]_vars

(***************************************************************************)
(* The analysis functions on texts of any content: a text is analysed as   *)
(* StringAnalysisSerializer.create analyses a value, but for the digest.   *)
(***************************************************************************)
MaxTextLen == 3

RECURSIVE Texts(_)
Texts(n) ==
    IF n = 0 THEN {""}
    ELSE Texts(n - 1)
             \cup { t \o c : t \in Texts(n - 1), c \in {"a", "A", "b", "1", " "} }

Analyze(t) ==
    /\ input_text' = t
    /\ analysis' = [length |-> Len(t),
                    is_palindrome |-> is_palindrome(t),
                    unique_characters |-> count_unique_characters(t),
                    word_count |-> get_word_count(t),
                    character_frequency_map |-> get_character_frequency(t)]
    /\ UNCHANGED <<query, typed, pc, filters, error, validation_error, response,
                   store, request, before, clock, handlers>>

SpecAnalyze == Init /\ [][\E t \in Texts(MaxTextLen) : Analyze(t)]_vars

(***************************************************************************)
(* What was typed, for comparison with what the parser made of it.         *)
(***************************************************************************)
\* the phrases typed that trigger rule r, by their position in the query
With(r) == {k \in DOMAIN typed : r \in typed[k].rules}

Triggered(r) == With(r) # {}

\* the first phrase in the query that triggers rule r
FirstWith(r) == typed[MinOf(With(r))]

\* the smallest spelled-out number typed
SmallestSpelled == MinOf({typed[k].n : k \in With("text_words")})

RuleNames ==
    {"palindrome", "single_word", "numeral_words", "text_words", "longer",
     "shorter", "at_least", "at_most", "containing", "first_vowel",
     "second_vowel", "third_vowel", "fourth_vowel", "fifth_vowel"}

\* the rules that set a field
RulesOf(field) ==
    CASE field = "is_palindrome" -> {"palindrome"}
      [] field = "word_count" -> {"single_word", "numeral_words", "text_words"}
      [] field = "min_length" -> {"longer", "at_least"}
      [] field = "max_length" -> {"shorter", "at_most"}
      [] field = "contains_character" ->
            {"containing", "first_vowel", "second_vowel", "third_vowel",
             "fourth_vowel", "fifth_vowel"}

TriggeredRules == {r \in RuleNames : Triggered(r)}

\* the whole words of s: the maximal runs of word characters
Words(s) ==
    {SubSeq(s, i, MaxOf(RunFrom(s, i, WordChars)) - 1) : i \in Starts(s)}

\* the words of the standalone palindrome rule
PalindromeWords == {"palindrome", "palindromic", "palindromes"}

\* one of the palindrome words is a whole word of the query
PalindromeWordTyped == Words(lower(query)) \cap PalindromeWords # {}

\* the rules that match the query, the palindrome rule taken by its words
MatchingRules ==
    (TriggeredRules \ {"palindrome"})
        \cup (IF PalindromeWordTyped THEN {"palindrome"} ELSE {})

\* parse_natural_language_query was called and has returned or raised
Parsed == pc = "parsed"

\* parse_natural_language_query was called and has returned a dict
Returned == pc = "parsed" /\ error = NoError

\* the outcome recorded in the state
Recorded == [filters |-> filters, error |-> error]

(***************************************************************************)
(* C1: the rules that match a query all take effect in the one dict        *)
(* returned: a field is set exactly when a rule setting it matched, and a  *)
(* query matching the palindrome rule, the numeral word-count rule and the *)
(* contains-letter rule and no other returns exactly is_palindrome = TRUE, *)
(* word_count = the numeral and contains_character = the letter.           *)
(***************************************************************************)
C1_RulesAccumulate ==
    Returned =>
        /\ \A field \in FieldNames :
               field \in DOMAIN filters <=> RulesOf(field) \cap TriggeredRules # {}
        /\ DOMAIN filters \subseteq FieldNames
        /\ TriggeredRules = {"palindrome", "numeral_words", "containing"} =>
               filters = [is_palindrome |-> TRUE,
                          word_count |-> FirstWith("numeral_words").n,
                          contains_character |-> FirstWith("containing").ch]
        /\ query = "palindromic strings with 2 words containing letter a" =>
               filters = [is_palindrome |-> TRUE, word_count |-> 2,
                          contains_character |-> "a"]

C1_Witness ==
    /\ Returned
    /\ query = "palindromic strings with 2 words containing letter a"
    /\ DOMAIN filters = {"is_palindrome", "word_count", "contains_character"}

(***************************************************************************)
(* C2: where several matching rules set the same field, the rule evaluated *)
(* last decides: spelled-out words over numeral words over 'single word';  *)
(* 'at least' over 'longer than'; 'at most' over 'shorter than'; the       *)
(* ordinal vowels over 'containing letter', a later ordinal over an        *)
(* earlier one.                                                            *)
(***************************************************************************)
C2_LastMatchWins ==
    Returned =>
        /\ Triggered("text_words") => filters["word_count"] = SmallestSpelled
        /\ Triggered("numeral_words") /\ ~Triggered("text_words") =>
               filters["word_count"] = FirstWith("numeral_words").n
        /\ Triggered("single_word") /\ ~Triggered("numeral_words")
               /\ ~Triggered("text_words") => filters["word_count"] = 1
        /\ Triggered("at_least") => filters["min_length"] = FirstWith("at_least").n
        /\ Triggered("longer") /\ ~Triggered("at_least") =>
               filters["min_length"] = FirstWith("longer").n + 1
        /\ Triggered("at_most") => filters["max_length"] = FirstWith("at_most").n
        /\ Triggered("shorter") /\ ~Triggered("at_most") =>
               filters["max_length"] = FirstWith("shorter").n - 1
        /\ Triggered("fifth_vowel") => filters["contains_character"] = "u"
        /\ Triggered("fourth_vowel") /\ ~Triggered("fifth_vowel") =>
               filters["contains_character"] = "o"
        /\ Triggered("third_vowel") /\ ~Triggered("fourth_vowel")
               /\ ~Triggered("fifth_vowel") => filters["contains_character"] = "i"
        /\ Triggered("second_vowel") /\ ~Triggered("third_vowel")
               /\ ~Triggered("fourth_vowel") /\ ~Triggered("fifth_vowel") =>
               filters["contains_character"] = "e"
        /\ Triggered("first_vowel") /\ ~Triggered("second_vowel")
               /\ ~Triggered("third_vowel") /\ ~Triggered("fourth_vowel")
               /\ ~Triggered("fifth_vowel") => filters["contains_character"] = "a"
        /\ Triggered("containing") /\ ~Triggered("first_vowel")
               /\ ~Triggered("second_vowel") /\ ~Triggered("third_vowel")
               /\ ~Triggered("fourth_vowel") /\ ~Triggered("fifth_vowel") =>
               filters["contains_character"] = FirstWith("containing").ch

C2_Witness ==
    /\ Returned
    /\ Triggered("numeral_words") /\ Triggered("text_words")
    /\ FirstWith("numeral_words").n # SmallestSpelled
    /\ filters["word_count"] = SmallestSpelled

(***************************************************************************)
(* C3: the parser fails with its 'could not parse' error exactly when no   *)
(* rule matches the query, and a dict it returns is never empty.           *)
(***************************************************************************)
C3_UnrecognizedIffNoRule ==
    Parsed =>
        /\ error = CouldNotParseError <=> MatchingRules = {}
        /\ error = NoError => filters # EmptyFilters

(***************************************************************************)
(* C4: for every numeral N typed into a length phrase, 'longer than N      *)
(* characters' yields min_length = N + 1, 'at least N characters' yields   *)
(* min_length = N, 'at most N characters' yields max_length = N, and       *)
(* 'shorter than N characters' with N >= 1 yields max_length = N - 1.      *)
(* Where two phrases set the same bound the later rule decides (C2), so    *)
(* the earlier rule's value is read where the later rule has not matched.  *)
(***************************************************************************)
C4_LengthArithmetic ==
    Parsed =>
        /\ Triggered("longer") /\ ~Triggered("at_least") /\ error = NoError =>
               filters["min_length"] = FirstWith("longer").n + 1
        /\ Triggered("at_least") /\ error = NoError =>
               filters["min_length"] = FirstWith("at_least").n
        /\ Triggered("at_most") /\ error = NoError =>
               filters["max_length"] = FirstWith("at_most").n
        /\ Triggered("shorter") /\ FirstWith("shorter").n >= 1 =>
               /\ error = NoError
               /\ ~Triggered("at_most") =>
                      filters["max_length"] = FirstWith("shorter").n - 1
        /\ query = "longer than 10 characters" => filters = [min_length |-> 11]
        /\ query = "shorter than 1 characters" => filters = [max_length |-> 0]

C4_Witness ==
    /\ Returned
    /\ query = "shorter than 1 characters"
    /\ filters["max_length"] = 0

(***************************************************************************)
(* C5: a query containing 'shorter than 0 characters' makes the parser     *)
(* fail, whatever else the query holds, with an error of a kind other than *)
(* the kind raised for an unrecognised query, and the response the caller  *)
(* receives differs from the response to an unrecognised query.            *)
(***************************************************************************)
ShorterThanZeroTyped ==
    \E k \in DOMAIN typed : typed[k].text = "shorter than 0 characters"

C5_InvalidLengthConstraintDistinct ==
    /\ Parsed /\ ShorterThanZeroTyped =>
           /\ error # NoError
           /\ error.type # CouldNotParseError.type
           /\ filters = EmptyFilters
    /\ pc = "responded" /\ ShorterThanZeroTyped =>
           /\ response.status # HTTP_200_OK
           /\ response # NaturalLanguageFilterView_get("xyz abc def", store).response

(***************************************************************************)
(* C6: for each n in 1..10 the query '<n spelled out> word(s)' and the     *)
(* query '<n as a numeral> word(s)' yield the same word_count, n.          *)
(***************************************************************************)
NumeralText == <<"1", "2", "3", "4", "5", "6", "7", "8", "9", "10">>

C6_SpelledEqualsNumeral ==
    Parsed /\ Len(typed) = 1 /\ typed[1].rules \cap {"numeral_words", "text_words"} # {} =>
        /\ error = NoError
        /\ filters = [word_count |-> typed[1].n]
        /\ typed[1].rules = {"text_words"} =>
               \A w \in {"word", "words"} :
                   parse_natural_language_query(NumeralText[typed[1].n] \o " " \o w)
                       = Recorded

C6_Witness ==
    /\ Returned
    /\ query = "ten words"
    /\ filters = [word_count |-> 10]

(***************************************************************************)
(* C7: two queries that differ only in the case of their letters either    *)
(* both fail with the same error or both return the same dict.             *)
(***************************************************************************)
UpperTable ==
    [a |-> "A", b |-> "B", c |-> "C", d |-> "D", e |-> "E", f |-> "F", g |-> "G",
     h |-> "H", i |-> "I", j |-> "J", k |-> "K", l |-> "L", m |-> "M", n |-> "N",
     o |-> "O", p |-> "P", q |-> "Q", r |-> "R", s |-> "S", t |-> "T", u |-> "U",
     v |-> "V", w |-> "W", x |-> "X", y |-> "Y", z |-> "Z"]

\* the character c in the other case
SwapChar(c) ==
    IF c \in LowerLetters THEN UpperTable[c]
    ELSE IF c \in UpperLetters THEN CHOOSE d \in LowerLetters : UpperTable[d] = c
    ELSE c

\* s with the letters at the positions of I in the other case
RECURSIVE Recase(_, _, _)
Recase(s, I, k) ==
    IF k > Len(s) THEN ""
    ELSE (IF k \in I THEN SwapChar(CharAt(s, k)) ELSE CharAt(s, k))
             \o Recase(s, I, k + 1)

\* the positions of s that hold a lower-case letter
LowerPositions(s) == {k \in 1..Len(s) : CharAt(s, k) \in LowerLetters}

\* the positions of s that hold an upper-case letter
UpperPositions(s) == {k \in 1..Len(s) : CharAt(s, k) \in UpperLetters}

\* s with every letter in the other case, in upper case, in lower case, and
\* with every second character in the other case
Recasings(s) ==
    {Recase(s, 1..Len(s), 1), Recase(s, LowerPositions(s), 1),
     Recase(s, UpperPositions(s), 1),
     Recase(s, {k \in 1..Len(s) : k % 2 = 0}, 1)}

C7_CaseInsensitive ==
    Parsed => \A other \in Recasings(query) :
                  parse_natural_language_query(other) = Recorded

C7_Witness ==
    /\ Returned
    /\ query = "Contains The Character Z"
    /\ "CONTAINS THE CHARACTER Z" \in Recasings(query)
    /\ "contains the character z" \in Recasings(query)
    /\ filters = [contains_character |-> "z"]

(***************************************************************************)
(* C8: the palindrome rule sets is_palindrome exactly when the query holds *)
(* one of the whole words 'palindrome', 'palindromic', 'palindromes'; the  *)
(* letters inside a longer token, or another form of the word, do not      *)
(* trigger it.                                                             *)
(***************************************************************************)
C8_PalindromeWholeWordsOnly ==
    Returned => ("is_palindrome" \in DOMAIN filters <=> PalindromeWordTyped)

(***************************************************************************)
(* C9: a dict the parser returns has word_count, min_length and max_length *)
(* at or above zero and contains_character one lower-case letter; so the   *)
(* only conflict the validator reports to a natural-language request is    *)
(* min_length > max_length.                                                *)
(***************************************************************************)
C9_ParserOutputValid ==
    /\ Returned =>
           /\ \A k \in DOMAIN filters \cap {"word_count", "min_length", "max_length"} :
                  filters[k] >= 0
           /\ "contains_character" \in DOMAIN filters =>
                  filters["contains_character"] \in LowerLetters
    /\ pc = "responded" /\ (validation_error # None
                             \/ response.status = HTTP_422_UNPROCESSABLE_ENTITY) =>
           /\ {"min_length", "max_length"} \subseteq DOMAIN filters
           /\ filters["min_length"] > filters["max_length"]
           /\ validation_error[1] = "Conflicting length constraints: min_length ("
           /\ response.details = validation_error

C9_Witness ==
    /\ pc = "responded"
    /\ response.status = HTTP_422_UNPROCESSABLE_ENTITY
    /\ filters = [min_length |-> 11, max_length |-> 5]

(***************************************************************************)
(* C10: _validate_filters reports a conflict when min_length and           *)
(* max_length are both present and min_length > max_length, accepts when   *)
(* min_length <= max_length, equal bounds included, and no other field is  *)
(* invalid, and leaves the dict it is given as it was.                     *)
(***************************************************************************)
Validated == pc = "validated"

BothLengths == {"min_length", "max_length"} \subseteq DOMAIN filters

\* a field other than the pair of bounds is invalid
OtherFieldInvalid ==
    \/ \E k \in DOMAIN filters \cap {"word_count", "min_length", "max_length"} :
           filters[k] < 0
    \/ "contains_character" \in DOMAIN filters
           /\ Len(filters["contains_character"]) # 1

C10_ValidateState ==
    Validated =>
        /\ BothLengths /\ filters["min_length"] > filters["max_length"] =>
               /\ validation_error # None
               /\ validation_error[1] = "Conflicting length constraints: min_length ("
        /\ ~(BothLengths /\ filters["min_length"] > filters["max_length"])
               /\ ~OtherFieldInvalid => validation_error = None

C10_ValidateMinMax ==
    /\ []C10_ValidateState
    /\ [][pc' = "validated" => filters' = filters]_vars

C10_Witness ==
    /\ Validated
    /\ BothLengths
    /\ filters["min_length"] = filters["max_length"]
    /\ validation_error = None

(***************************************************************************)
(* The stored records and the requests on them.                            *)
(***************************************************************************)
\* the last request was handled by the list view or the filter view and
\* answered with records
Listed == request.op \in {"list", "filter"} /\ response.status = HTTP_200_OK

\* the ids of the records of a response
Ids(data) == { data[i].id : i \in 1..Len(data) }

\* the row satisfies every constraint present in the filter set f
Satisfies(row, f) ==
    /\ "is_palindrome" \in DOMAIN f => (row.is_palindrome <=> f["is_palindrome"])
    /\ "min_length" \in DOMAIN f => f["min_length"] <= row.length
    /\ "max_length" \in DOMAIN f => row.length <= f["max_length"]
    /\ "word_count" \in DOMAIN f => row.word_count = f["word_count"]
    /\ "contains_character" \in DOMAIN f =>
           \E i \in 1..Len(row.value) :
               CharAt(row.value, i)
                   \in {f["contains_character"], SwapChar(f["contains_character"])}

SatisfyingIds(table, f) ==
    { table[i].sha256_hash : i \in { j \in 1..Len(table) : Satisfies(table[j], f) } }

\* C11: a list or filter request that is answered with records returns
\* exactly the stored records that satisfy every constraint of the filter
\* set it applied, each once: is_palindrome equal to the flag, length
\* between min_length and max_length inclusive, word_count equal, value
\* containing contains_character in either letter case.  A direct request
\* applies its parameters and no other constraint, so one without
\* parameters returns every record.
C11_FilterExact ==
    Listed =>
        /\ Ids(response.data) = SatisfyingIds(before, response.parsed_filters)
        /\ Len(response.data) = Cardinality(Ids(response.data))
        /\ response.count = Len(response.data)
        /\ request.op = "list" =>
               /\ DOMAIN response.parsed_filters = DOMAIN request.input
               /\ request.input = NoParams => Len(response.data) = Len(before)

\* of three records, is_palindrome=yes and min_length=2 return one; and
\* contains_character=A returns a record whose value has the letter in
\* lower case only
C11_Witness ==
    /\ Listed
    /\ Len(before) = 3
    /\ \/ /\ request.op = "list"
          /\ DOMAIN request.input = {"is_palindrome", "min_length"}
          /\ Len(response.data) = 1
       \/ /\ request.op = "filter"
          /\ response.parsed_filters = Put(EmptyFilters, "contains_character", "a")
          /\ \E i \in 1..Len(response.data) : response.data[i].value = "ab"


\* what a list request without parameters returns from the table
Scan(table) == StringListCreateView_get(NoParams, table, clock).response.data

\* the places of sub in seq, in the order of seq
Subsequence(sub, seq) ==
    \E place \in [1..Len(sub) -> 1..Len(seq)] :
        /\ \A i \in 1..Len(sub) : seq[place[i]] = sub[i]
        /\ \A i, j \in 1..Len(sub) : i < j => place[i] < place[j]

\* C12: the records a list or filter request returns appear most recently
\* created first, and they are a subsequence of what the request without
\* any filter returns: filtering drops records and never reorders them.
C12_NewestFirst ==
    Listed =>
        /\ \A i, j \in 1..Len(response.data) :
               i < j => response.data[i].created_at > response.data[j].created_at
        /\ \A i, j \in 1..Len(Scan(before)) :
               i < j => Scan(before)[i].created_at > Scan(before)[j].created_at
        /\ Subsequence(response.data, Scan(before))

\* of three records the filter returns the newest and the oldest
C12_Witness ==
    /\ Listed
    /\ Len(before) = 3
    /\ Len(response.data) = 2
    /\ response.data[1] = Scan(before)[1]
    /\ response.data[2] = Scan(before)[3]

\* the last request was a create of a string
PostedString == request.op = "post" /\ "value" \in DOMAIN request.input
                    /\ request.input["value"].type = "str"

\* C13: one request after the other, a create that repeats the create
\* just answered with 201 Created finds the record still there: it is
\* answered with 409 Conflict and the table keeps its rows, one of them
\* for that value.
C13_SecondCreateConflicts ==
    [][(/\ PostedString
        /\ response.status = HTTP_201_CREATED
        /\ request' = request)
       => /\ response'.status = HTTP_409_CONFLICT
          /\ store' = store
          /\ Cardinality({ i \in 1..Len(store') :
                             store'[i].sha256_hash = response.data.id }) = 1]_vars

\* C14: in every reachable state, whatever the interleaving of the
\* requests, the table holds at most one row per content hash.
C14_OneRowPerHash ==
    \A i, j \in 1..Len(store) :
        store[i].sha256_hash = store[j].sha256_hash => i = j

\* two creates of one value have both passed the duplicate check; the
\* first has inserted its row and the insert of the second was refused
C14_Witness ==
    \E c, d \in 1..Len(handlers) :
        /\ handlers[c].op = "post" /\ handlers[d].op = "post"
        /\ handlers[c].input = handlers[d].input
        /\ handlers[c].response.status = HTTP_201_CREATED
        /\ handlers[d].response.error = "IntegrityError"
        /\ Len(store) = 1

\* every request that has arrived is a create of the string s, and all
\* have been answered
AllCreated(s) ==
    /\ Len(handlers) >= 2
    /\ \A c \in 1..Len(handlers) :
           /\ handlers[c].op = "post"
           /\ handlers[c].input = ValueData(JsonString(s))
           /\ handlers[c].pc = "done"

\* C15: when several creates of one value run at the same time on a table
\* without a record for it, exactly one is answered with the created
\* record and every other one with 409 Conflict.
C15_ConcurrentCreates ==
    \A s \in ConcurrentValues :
        AllCreated(s) =>
            \E c \in 1..Len(handlers) :
                /\ handlers[c].response.status = HTTP_201_CREATED
                /\ handlers[c].response.data.value = s
                /\ \A d \in 1..Len(handlers) \ {c} :
                       handlers[d].response.status = HTTP_409_CONFLICT

\* the sum of the numbers of a map
RECURSIVE SumOver(_, _)
SumOver(map, keys) ==
    IF keys = {} THEN 0
    ELSE map[CHOOSE k \in keys : TRUE]
             + SumOver(map, keys \ {CHOOSE k \in keys : TRUE})

\* the fields of the row are the results of the analysis of its value
Analysed(row) ==
    /\ row.sha256_hash = calculate_sha256(row.value)
    /\ Len(row.sha256_hash) = 64
    /\ row.length = Len(row.value)
    /\ row.is_palindrome = is_palindrome(row.value)
    /\ row.unique_characters = count_unique_characters(row.value)
    /\ row.word_count = get_word_count(row.value)
    /\ row.character_frequency_map = get_character_frequency(row.value)
    /\ SumOver(row.character_frequency_map, DOMAIN row.character_frequency_map)
           = row.length
    /\ Cardinality(DOMAIN row.character_frequency_map) = row.unique_characters

\* the row is in the table
Stored(row, table) == \E i \in 1..Len(table) : table[i] = row

\* C16: the fields of every stored record are the results of the analysis
\* of its value (the SHA-256 hex digest, the length, is_palindrome, the
\* number of distinct characters, the number of words and the character
\* frequencies, which sum to the length and have one key per distinct
\* character), and no request changes a field of a record: a record of
\* the table is there unchanged after the request, or no record with its
\* hash is.
C16_RecordsAnalysed ==
    /\ [](\A i \in 1..Len(store) : Analysed(store[i]))
    /\ [][\A i \in 1..Len(store) :
              \/ Stored(store[i], store')
              \/ ~exists(store', store[i].sha256_hash)]_vars

\* a record was deleted from three, and the record of 'a b', of three
\* characters in two words, is one of the two that stay
C16_Witness ==
    /\ request.op = "delete"
    /\ response.status = HTTP_204_NO_CONTENT
    /\ Len(before) = 3
    /\ Len(store) = 2
    /\ \E i \in 1..Len(store) :
           /\ store[i].value = "a b"
           /\ store[i].length = 3
           /\ store[i].word_count = 2
           /\ Stored(store[i], before)

\* the string of the last create request
PostedValue == request.input["value"].str

\* C17: after a create answered 201 Created for the string v, the table
\* holds a record whose value is v itself, character for character, the
\* response shows it, and a get of v returns that record.
C17_StoredVerbatim ==
    (PostedString /\ response.status = HTTP_201_CREATED) =>
        /\ response.data.value = PostedValue
        /\ \E i \in 1..Len(store) :
               /\ store[i].value = PostedValue
               /\ ~Stored(store[i], before)
        /\ StringRetrieveDeleteView_get(PostedValue, store, clock).response.status
               = HTTP_200_OK
        /\ StringRetrieveDeleteView_get(PostedValue, store, clock).response.data.value
               = PostedValue

\* the value that the last get or delete request looked up
LookedUp == unquote(request.input)

\* C18: after a delete of the value v answered 204 No Content no record
\* has the value v, the other records are as they were, and a following
\* get or delete of v is answered 404 Not Found; and whenever no record
\* has the value looked up, which is so from the delete until v is
\* created again, get and delete are answered 404, and otherwise not.
C18_Deleted ==
    /\ (request.op = "delete" /\ response.status = HTTP_204_NO_CONTENT) =>
           /\ RowsWithValue(store, LookedUp) = {}
           /\ Len(store) = Len(before) - 1
           /\ \A i \in 1..Len(before) :
                  before[i].value # LookedUp => Stored(before[i], store)
           /\ StringRetrieveDeleteView_get(request.input, store, clock).response.status
                  = HTTP_404_NOT_FOUND
           /\ StringRetrieveDeleteView_delete(request.input, store, clock).response.status
                  = HTTP_404_NOT_FOUND
    /\ request.op \in {"get", "delete"} =>
           (response.status = HTTP_404_NOT_FOUND
                <=> RowsWithValue(before, LookedUp) = {})

\* the record of 'a b' was deleted from three records by its escaped path
C18_Witness ==
    /\ request.op = "delete"
    /\ request.input = "a%20b"
    /\ response.status = HTTP_204_NO_CONTENT
    /\ Len(before) = 3
    /\ \A i \in 1..Len(store) : store[i].value \in {"aA", "ab"}

\* C19: create checks in a fixed order: a body without the field 'value'
\* is answered 400; else a value that is null or not a string 422; else a
\* value whose hash is stored 409; and every other request creates the
\* record and is answered 201 Created.
C19_CreateOrder ==
    request.op = "post" =>
        IF "value" \notin DOMAIN request.input
        THEN response.status = HTTP_400_BAD_REQUEST /\ store = before
        ELSE IF request.input["value"].type # "str"
        THEN response.status = HTTP_422_UNPROCESSABLE_ENTITY /\ store = before
        ELSE IF exists(before, calculate_sha256(PostedValue))
        THEN response.status = HTTP_409_CONFLICT /\ store = before
        ELSE /\ response.status = HTTP_201_CREATED
             /\ Len(store) = Len(before) + 1

\* the rows of the table sub are rows of the table
Within(sub, table) == \A i \in 1..Len(sub) : Stored(sub[i], table)

\* the effect of the last request on the table
C20_Effect ==
    IF request.op = "post" /\ response.status = HTTP_201_CREATED
    THEN Len(store) = Len(before) + 1 /\ Within(before, store)
    ELSE IF request.op = "delete" /\ response.status = HTTP_204_NO_CONTENT
    THEN Len(store) = Len(before) - 1 /\ Within(store, before)
    ELSE store = before

Skeleton(t) ==
    { i \in 1..Len(t) : CharAt(t, i) \in LowerLetters \cup UpperLetters \cup DigitChars }

\* the letters and digits of t read the same from both ends, whatever the
\* case: the k-th from the left is the k-th from the right
Mirrored(t) ==
    \A i, j \in Skeleton(t) :
        Cardinality({ k \in Skeleton(t) : k <= i })
            = Cardinality({ k \in Skeleton(t) : k >= j })
        => CharAt(t, i) \in {CharAt(t, j), SwapChar(CharAt(t, j))}

\* C21: is_palindrome of a text is unchanged by changing the case of any
\* of its letters and by inserting or removing a character that is not an
\* ASCII letter or digit, and it is true exactly when the letters and
\* digits of the text, lower-cased, read the same backwards: 'race car'
\* and 'racecar' are palindromes, 'hello' is not, the empty text and a
\* text without letters and digits are.
C21_PalindromeSkeleton ==
    analysis # None =>
        /\ \A I \in SUBSET (1..Len(input_text)) :
               is_palindrome(Recase(input_text, I, 1)) = analysis.is_palindrome
        /\ \A k \in 0..Len(input_text), c \in {" ", "_", "!"} :
               is_palindrome(SubSeq(input_text, 1, k) \o c
                                 \o SubSeq(input_text, k + 1, Len(input_text)))
                   = analysis.is_palindrome
        /\ \A k \in (1..Len(input_text)) \ Skeleton(input_text) :
               is_palindrome(SubSeq(input_text, 1, k - 1)
                                 \o SubSeq(input_text, k + 1, Len(input_text)))
                   = analysis.is_palindrome
        /\ analysis.is_palindrome <=> Mirrored(input_text)
        /\ Skeleton(input_text) = {} => analysis.is_palindrome
        /\ is_palindrome("race car") /\ is_palindrome("racecar")
        /\ ~is_palindrome("hello")

\* a palindrome of letters in both cases around a space
C21_Witness ==
    /\ input_text = "A a"
    /\ analysis # None
    /\ analysis.is_palindrome

(***************************************************************************)
(* The errors of the filter view.                                          *)
(***************************************************************************)
\* the text q occurs in the text s
Occurs(q, s) == \E i \in 1..(Len(s) - Len(q) + 1) : SubSeq(s, i, i + Len(q) - 1) = q

\* C22: when the query matches no rule, the error that the parser raises
\* carries the text of the query, and so does the response with which
\* the view reports the error to the client.
C22_ErrorNamesQuery ==
    /\ (Parsed /\ error = CouldNotParseError) => Occurs(query, error.msg)
    /\ (pc = "responded" /\ error = CouldNotParseError) =>
           \/ response.original = query
           \/ Occurs(query, response.error)

\* the field is in the filter set with a negative number
Negative(field) == field \in DOMAIN filters /\ filters[field] < 0

\* C23: of the checks that a filter set fails, _validate_filters reports
\* the first in this order: min_length greater than max_length; then
\* min_length or max_length negative; then word_count negative; then
\* contains_character not of exactly one character.
C23_FirstFailureReported ==
    Validated =>
        IF BothLengths /\ filters["min_length"] > filters["max_length"]
        THEN validation_error # None
                 /\ validation_error[1] = "Conflicting length constraints: min_length ("
        ELSE IF Negative("min_length") \/ Negative("max_length")
        THEN validation_error # None
                 /\ validation_error[1] \in {"Invalid min_length: ", "Invalid max_length: "}
        ELSE IF Negative("word_count")
        THEN validation_error # None
                 /\ validation_error[1] = "Invalid word_count: "
        ELSE IF "contains_character" \in DOMAIN filters
                    /\ Len(filters["contains_character"]) # 1
        THEN validation_error
                 = <<"Invalid contains_character: must be a single character">>
        ELSE validation_error = None

(***************************************************************************)
(* The direct path and the natural-language path.                          *)
(***************************************************************************)
\* the parameters are written as a boolean, as integers and as a text
WellTyped(params) ==
    \A name \in DOMAIN params :
        CASE name = "is_palindrome" ->
                 lower(params[name]) \in {"true", "1", "yes", "false", "0", "no"}
          [] name = "contains_character" -> TRUE
          [] OTHER -> IsInteger(params[name])

\* the filter values that the parameters are written for
Typed(params) ==
    [ name \in DOMAIN params |->
          CASE name = "is_palindrome" -> lower(params[name]) \in {"true", "1", "yes"}
            [] name = "contains_character" -> params[name]
            [] OTHER -> IntegerOf(params[name]) ]

\* what the filter view does with the filter values, from its validation on
ByFilterView(f, table) ==
    AfterValidate("", f, _validate_filters(f), objects_all(table)).response

Filtered == request.op = "filter"

\* C25: the filter view parses, then validates, then applies: an empty
\* query or one of whitespace only and a query that the parser fails on
\* are answered 400 without validation, a filter set that the validator
\* rejects is answered 422, in each case without any record, and records
\* are returned, with 200, only for a query that was parsed and whose
\* filter set passed validation.
C25_ParseValidateApply ==
    Filtered =>
        /\ response.status
               \in {HTTP_200_OK, HTTP_400_BAD_REQUEST, HTTP_422_UNPROCESSABLE_ENTITY}
        /\ response.status # HTTP_200_OK => response.data = <<>> /\ response.count = 0
        /\ strip(query) = "" =>
               /\ response.status = HTTP_400_BAD_REQUEST
               /\ error = NoError /\ filters = EmptyFilters /\ validation_error = None
        /\ (strip(query) # "" /\ parse_natural_language_query(strip(query)).error # NoError) =>
               /\ response.status = HTTP_400_BAD_REQUEST
               /\ error # NoError /\ validation_error = None
        /\ validation_error # None =>
               /\ response.status = HTTP_422_UNPROCESSABLE_ENTITY
               /\ error = NoError
               /\ filters = parse_natural_language_query(strip(query)).filters
        /\ response.status = HTTP_200_OK =>
               /\ strip(query) # "" /\ error = NoError /\ validation_error = None
               /\ filters = parse_natural_language_query(strip(query)).filters
               /\ _validate_filters(filters) = None
               /\ Ids(response.data) = SatisfyingIds(before, filters)
        /\ store = before

\* a query of conflicting lengths is answered 422 on a table of three
\* records
C25_Witness ==
    /\ Filtered
    /\ response.status = HTTP_422_UNPROCESSABLE_ENTITY
    /\ validation_error # None
    /\ Len(before) = 3

(***************************************************************************)
(* Requests that run at the same time on different values.                 *)
(***************************************************************************)
\* the value that the request of a handler is about
ValueOf(h) == IF h.op = "post" THEN h.input["value"].str ELSE unquote(h.input)

\* the request of a handler, handled whole on a table
Whole(h, table, now) ==
    IF h.op = "post"
    THEN StringListCreateView_post(h.input, table, now)
    ELSE StringRetrieveDeleteView_delete(h.input, table, now)

\* the table after the requests of the handlers, handled whole one after
\* the other in the given order
RECURSIVE RunInOrder(_, _, _)
RunInOrder(order, table, now) ==
    IF order = <<>> THEN table
    ELSE RunInOrder(Tail(order),
                    Whole(handlers[Head(order)], table, now).store,
                    Whole(handlers[Head(order)], table, now).clock)

\* the hashes of the rows of a table
Hashes(table) == { table[i].sha256_hash : i \in 1..Len(table) }

\* every request that has arrived is answered, and no two are about the
\* same value
DistinctDone ==
    /\ Len(handlers) >= 2
    /\ \A c \in 1..Len(handlers) : handlers[c].pc = "done"
    /\ \A c, d \in 1..Len(handlers) :
           ValueOf(handlers[c]) = ValueOf(handlers[d]) => c = d

\* C26: create and delete requests about different values that run at the
\* same time do not interfere: whatever the interleaving, each is answered
\* as when it runs alone on the table they started on, and the table they
\* leave holds the records that it holds when the requests are handled
\* one after the other, in any order.
C26_DistinctValuesIndependent ==
    DistinctDone =>
        /\ \A c \in 1..Len(handlers) :
               /\ handlers[c].response.status
                      = Whole(handlers[c], <<>>, 0).response.status
               /\ handlers[c].response.error
                      = Whole(handlers[c], <<>>, 0).response.error
        /\ \A order \in [1..Len(handlers) -> 1..Len(handlers)] :
               (\A c, d \in 1..Len(handlers) : order[c] = order[d] => c = d)
                   => Hashes(RunInOrder(order, <<>>, 0)) = Hashes(store)

\* C27: the hash that the duplicate check of a create looks up is the hash
\* under which the record is stored: one request after the other, every
\* create is answered 201, 400, 409 or 422 (none fails at the insert after
\* it passed the duplicate check), and after a 201 the record stored and
\* shown has the hash of the posted string, which no record had before.
C27_CheckedHashIsStoredHash ==
    /\ request.op = "post" =>
           response.status \in {HTTP_201_CREATED, HTTP_400_BAD_REQUEST,
                                HTTP_409_CONFLICT, HTTP_422_UNPROCESSABLE_ENTITY}
    /\ (PostedString /\ response.status = HTTP_201_CREATED) =>
           /\ response.data.id = calculate_sha256(PostedValue)
           /\ exists(store, calculate_sha256(PostedValue))
           /\ ~exists(before, calculate_sha256(PostedValue))

\* C28: in every reachable state, whatever the interleaving of the
\* requests, the table holds at most one record per value, so that the
\* lookup by value of a get or a delete finds no record or exactly one.
C28_OneRowPerValue ==
    /\ \A i, j \in 1..Len(store) : store[i].value = store[j].value => i = j
    /\ \A v \in ConcurrentValues \cup {" aA"} :
           Cardinality(RowsWithValue(store, v)) <= 1

\* a delete has found the one record of 'aA', which one create has
\* inserted, while a second create of 'aA' has passed its duplicate check
C28_Witness ==
    /\ Len(handlers) = 3
    /\ \E c, d, e \in 1..3 :
           /\ handlers[c].op = "post" /\ handlers[d].op = "post"
           /\ handlers[c].input = handlers[d].input
           /\ handlers[c].response.status = HTTP_201_CREATED
           /\ handlers[d].pc = "checked"
           /\ handlers[e].op = "delete" /\ handlers[e].pc = "found"
           /\ handlers[e].found.value = "aA"
    /\ Cardinality(RowsWithValue(store, "aA")) = 1

\* the query speaks of the palindrome keyword in the negative
Negated == \E k \in 1..Len(typed) :
               typed[k].text \in {"not a palindrome", "non-palindromic"}

\* C29: no query makes the parser return is_palindrome = False: in every
\* dict returned the key is absent or its value is True, whatever words
\* surround the keyword, a 'not' or a 'non-' before it included; and the
\* filter view hands the same dict on.
C29_PalindromeNeverFalse ==
    /\ (pc \in {"parsed", "responded"} /\ "is_palindrome" \in DOMAIN filters)
           => filters["is_palindrome"] = TRUE
    /\ (Returned /\ Negated) => "is_palindrome" \in DOMAIN filters

\* 'not a palindrome' after a word-count phrase returns is_palindrome True
C29_Witness ==
    /\ Returned
    /\ query = "single word not a palindrome"
    /\ filters = [is_palindrome |-> TRUE, word_count |-> 1]

\* the record that the last delete request found
Deleted == objects_get(before, LookedUp)

\* the record but for the time of its creation
Timeless(row) == [row EXCEPT !.created_at = 0]

\* C30: a value can be created again after its record was deleted: the
\* create of v that follows a delete of v answered 204 No Content (of the
\* record that a create of v had stored) is answered 201 Created, not 409,
\* and the new record has the hash and the derived fields of the deleted
\* one.
C30_CreateAfterDelete ==
    [][(/\ request.op = "delete"
        /\ response.status = HTTP_204_NO_CONTENT
        /\ request'.op = "post"
        /\ "value" \in DOMAIN request'.input
        /\ request'.input["value"].type = "str"
        /\ request'.input["value"].str = LookedUp)
       => /\ response'.status = HTTP_201_CREATED
          /\ response'.data.id = Deleted.sha256_hash
          /\ response'.data.properties = to_representation(Deleted).properties
          /\ Len(store') = Len(store) + 1
          /\ \E i \in 1..Len(store') :
                 /\ store'[i].value = LookedUp
                 /\ Timeless(store'[i]) = Timeless(Deleted)
                 /\ store'[i].created_at > Deleted.created_at]_vars

\* the second record ever created is the record of 'a b', created on a
\* table that a delete has emptied
C30_Witness ==
    /\ PostedString
    /\ PostedValue = "a b"
    /\ response.status = HTTP_201_CREATED
    /\ before = <<>>
    /\ Len(store) = 1
    /\ store[1].value = "a b"
    /\ store[1].created_at = 1
    /\ clock = 2

====
